---- MODULE Spec2Model ----
(***************************************************************************)
(* Model of tools/bin/ecflow/processes/main/meteorological/                *)
(* get_med_metfcst.py: main() downloads the CFSv2 90-day forecast, merges  *)
(* the variables, converts tmmn/tmmx to degC, repairs the fill value,      *)
(* enforces tmax >= tmin, computes the forecast window, rewrites the       *)
(* configuration file and conservatively remaps through a staging file.    *)
(*                                                                         *)
(* Grid values are float64 in the program; here they are fixed-point       *)
(* integers in hundredths, so -32767. is -3276700.                         *)
(***************************************************************************)
EXTENDS Integers, Sequences, FiniteSets, TLC

\* ------------------------------------------------------------------ bounds
\* number of grid cells (lat x lon x time, flattened) of every series
NCells == 2
\* how many days after each anchor date the date inputs range over
MaxDayOffset == 2
\* number of invocations of the script that may run at the same time
NumInvocations == 2

\* --------------------------------------------------------- program constants
\* -32767., the _FillValue (lines 86 and 93), in hundredths
FillValue == -3276700
\* -30000, the threshold of the _FillValue repair (line 86), in hundredths
FillThreshold == -3000000
\* -9999, the dummy value of the SEAS_* keywords (lines 112-114)
SeasDummy == -9999

\* varnames (lines 50-54), in the order the dict literal lists them
VarOrder == <<"vs", "tmmx", "tmmn", "srad", "sph", "pr", "pet">>

varnames == [v \in {"vs", "tmmx", "tmmn", "srad", "sph", "pr", "pet"} |->
               CASE v = "vs"   -> "wind_speed"
                 [] v = "tmmx" -> "air_temperature"
                 [] v = "tmmn" -> "air_temperature"
                 [] v = "srad" -> "surface_downwelling_shortwave_flux_in_air"
                 [] v = "sph"  -> "specific_humidity"
                 [] v = "pr"   -> "precipitation_amount"
                 [] v = "pet"  -> "potential_evapotranspiration"]

\* modelnames (line 56)
modelnames == <<"CFSv2">>

\* new_units (lines 59-61)
new_units == [v \in {"vs", "tmmx", "tmmn", "srad", "sph", "pr", "pet"} |->
               CASE v = "vs"   -> "m s-1"
                 [] v = "sph"  -> "kg kg-1"
                 [] v = "tmmx" -> "degC"
                 [] v = "tmmn" -> "degC"
                 [] v = "srad" -> "W m-2"
                 [] v = "pr"   -> "mm"
                 [] v = "pet"  -> "mm"]

\* the variables the unit conversion loops over (line 80)
ConvertVars == <<"tmmn", "tmmx">>

Cells == 1..NCells

\* ------------------------------------------------------- unit conversion
\* cf_units.Unit(a).convert(values, Unit("degC")) is defined for the
\* temperature units only; any other unit raises.
Convertible(units_in, units_out) ==
  /\ units_out = "degC"
  /\ units_in \in {"K", "degC", "degF"}

\* rounding to the nearest hundredth of p / q, q > 0
RoundDiv(p, q) == (2 * p + q) \div (2 * q)

\* the affine conversion of one value (in hundredths) to degC:
\* K - 273.15, degC unchanged, (degF - 32) * 5 / 9
ConvertValue(units_in, v) ==
  CASE units_in = "K"    -> v - 27315
    [] units_in = "degC" -> v
    [] units_in = "degF" -> RoundDiv((v - 3200) * 5, 9)

\* line 84: units_in.convert(values[:], units_out, inplace=True)
Convert(units_in, values) == [c \in DOMAIN values |-> ConvertValue(units_in, values[c])]

\* the comparison of line 86 turned around
BelowThreshold_Above(v) == v > FillThreshold

\* the mask of line 86: values < -30000
BelowThreshold(v) == v < FillThreshold

\* line 86: values[values < -30000] = -32767.
FixFillValue(values) ==
  [c \in DOMAIN values |-> IF BelowThreshold(values[c]) THEN FillValue ELSE values[c]]

\* lines 81-87 for one series: [units, values] -> [units, values]
Normalize(var, series) ==
  [series EXCEPT !.values = FixFillValue(Convert(series.units, series.values)),
                 !.units = new_units[var]]

\* --------------------------------------------------- tmax >= tmin (90-95)
\* line 93 with the comparison turned around
SwapValues_Reversed(tmin_, tmax_) ==
  [c \in DOMAIN tmin_ |-> (tmin_[c] < tmax_[c]) /\ (tmax_[c] # FillValue)]

\* line 93 without the test for the fill value
SwapValues_NoFillTest(tmin_, tmax_) ==
  [c \in DOMAIN tmin_ |-> tmin_[c] > tmax_[c]]

\* line 93: swap_values = ((tmin > tmax) & (tmax != -32767.))
SwapValues(tmin_, tmax_) ==
  [c \in DOMAIN tmin_ |-> (tmin_[c] > tmax_[c]) /\ (tmax_[c] # FillValue)]

\* lines 94-95: values[swap_values] = other[swap_values]
AssignWhere(values, mask, other) ==
  [c \in DOMAIN values |-> IF mask[c] THEN other[c] ELSE values[c]]

\* --------------------------------------------------------------- dates
IsLeap(y) == (y % 4 = 0) /\ ((y % 100 # 0) \/ (y % 400 = 0))

DaysInMonth(y, m) ==
  IF m = 2 THEN (IF IsLeap(y) THEN 29 ELSE 28)
  ELSE IF m \in {4, 6, 9, 11} THEN 30 ELSE 31

\* datetime._days_before_year
DaysBeforeYear(y) == (y - 1) * 365 + ((y - 1) \div 4) - ((y - 1) \div 100) + ((y - 1) \div 400)

RECURSIVE DaysBeforeMonth(_, _)
\* datetime._days_before_month
DaysBeforeMonth(y, m) == IF m = 1 THEN 0 ELSE DaysBeforeMonth(y, m - 1) + DaysInMonth(y, m - 1)

\* datetime._ymd2ord
ToOrdinal(dt) == DaysBeforeYear(dt.year) + DaysBeforeMonth(dt.year, dt.month) + dt.day

\* the years the date inputs and results lie in
Years == 2023..2101

\* datetime._ord2ymd, with the time of day carried over
FromOrdinal(n, hour) ==
  LET y == CHOOSE yy \in Years : DaysBeforeYear(yy) < n /\ n <= DaysBeforeYear(yy + 1)
      m == CHOOSE mm \in 1..12 :
             /\ DaysBeforeYear(y) + DaysBeforeMonth(y, mm) < n
             /\ n <= DaysBeforeYear(y) + DaysBeforeMonth(y, mm) + DaysInMonth(y, mm)
  IN  [year |-> y, month |-> m, day |-> n - DaysBeforeYear(y) - DaysBeforeMonth(y, m),
       hour |-> hour]

\* datetime + timedelta(days=n)
AddDays(dt, n) == FromOrdinal(ToOrdinal(dt) + n, dt.hour)

Digits == <<"0", "1", "2", "3", "4", "5", "6", "7", "8", "9">>
Digit(n) == Digits[n + 1]
DigitVal(ch) == CHOOSE d \in 0..9 : Digits[d + 1] = ch

\* datetime.strftime('%Y-%m-%d'): ten characters
Strftime(dt) ==
  << Digit(dt.year \div 1000), Digit((dt.year \div 100) % 10),
     Digit((dt.year \div 10) % 10), Digit(dt.year % 10), "-",
     Digit(dt.month \div 10), Digit(dt.month % 10), "-",
     Digit(dt.day \div 10), Digit(dt.day % 10) >>

\* datetime.strptime(s, '%Y-%m-%d'): midnight of the day
Strptime(s) ==
  [year  |-> 1000 * DigitVal(s[1]) + 100 * DigitVal(s[2]) + 10 * DigitVal(s[3]) + DigitVal(s[4]),
   month |-> 10 * DigitVal(s[6]) + DigitVal(s[7]),
   day   |-> 10 * DigitVal(s[9]) + DigitVal(s[10]),
   hour  |-> 0]

\* line 96: pd.to_datetime(merge_ds['time'].values[-1])
LastTime(time) == time[Len(time)]

\* lines 97-98
StartDate(End_Date) == AddDays(Strptime(End_Date), 1)

\* line 101 without the added day
SaveStateDate_SameDay(end_date_) == end_date_

\* line 101, before formatting
SaveStateDate(end_date_) == AddDays(end_date_, 1)

\* lines 106-114 without the SEAS_* keywords
MakeKwargs_NoSeas(monitor, start_fmt, end_fmt, save_fmt) ==
  [START_DATE          |-> monitor.Start_Date,
   END_DATE            |-> monitor.End_Date,
   VIC_SAVE_STATE      |-> monitor.vic_save_state,
   MED_START_DATE      |-> start_fmt,
   MED_END_DATE        |-> end_fmt,
   MED_VIC_SAVE_STATE  |-> save_fmt]

\* lines 106-114
MakeKwargs(monitor, start_fmt, end_fmt, save_fmt) ==
  [START_DATE          |-> monitor.Start_Date,
   END_DATE            |-> monitor.End_Date,
   VIC_SAVE_STATE      |-> monitor.vic_save_state,
   MED_START_DATE      |-> start_fmt,
   MED_END_DATE        |-> end_fmt,
   MED_VIC_SAVE_STATE  |-> save_fmt,
   SEAS_START_DATE     |-> SeasDummy,
   SEAS_END_DATE       |-> SeasDummy,
   SEAS_VIC_SAVE_STATE |-> SeasDummy]

\* ------------------------------------------------------------- file names
\* line 119: os.path.join(met_fcst_loc, '%s.nc' % (model))
OutFile(met_fcst_loc, model) == <<met_fcst_loc, model, ".nc">>

\* lines 123-124: os.path.join(TempDir, 'med_temp_{}'.format(model))
Temporary(TempDir, model) == <<TempDir, "med_temp_", model>>

\* ------------------------------------------------------------------ state
VARIABLES
  config_dict,   \* per invocation: the configuration read at lines 35-46
  remote,        \* the data the THREDDS server holds
  fs,            \* the file system: path -> file
  pc,            \* per invocation: the statement main() is at
  err,           \* per invocation: the exception that ended main(), or ""
  model_idx,     \* per invocation: index into modelnames (line 64)
  var_idx,       \* per invocation: index of the inner loops (lines 66, 80)
  dlist,         \* per invocation: line 65
  merge_ds,      \* per invocation: line 77
  tmin,          \* per invocation: line 91
  tmax,          \* per invocation: line 92
  start_date_format,      \* line 99
  end_date_format,        \* line 100
  vic_save_state_format,  \* line 101
  kwargs,        \* per invocation: line 106
  handed,        \* per invocation: what replace_var_pythonic_config received
  outfile,       \* per invocation: line 119
  temporary,     \* per invocation: line 123
  trace          \* per invocation: the stages that have ended, with outcome

vars == <<config_dict, remote, fs, pc, err, model_idx, var_idx, dlist, merge_ds,
          tmin, tmax, start_date_format, end_date_format, vic_save_state_format,
          kwargs, handed, outfile, temporary, trace>>

dataVars == <<dlist, merge_ds, tmin, tmax>>
windowVars == <<start_date_format, end_date_format, vic_save_state_format, kwargs, handed>>
fileVars == <<fs, outfile, temporary>>
envVars == <<config_dict, remote>>

Invocations == DOMAIN pc

\* no file at a path
NoFile == [kind |-> "none", writer |-> 0, model |-> ""]

NoDataset == [data |-> <<>>, dim |-> "", dims |-> <<>>, time |-> <<>>]

NoPath == <<>>

\* an exception that is swallowed: control goes on to `next` anyway
Outcome_Swallowed(ok, next) == next

\* an uncaught exception ends main(); otherwise control goes on to `next`
Outcome(ok, next) == IF ok THEN next ELSE "failed"

Ended(i, stage, ok) == Append(trace[i], [model |-> modelnames[model_idx[i]], stage |-> stage, ok |-> ok])

\* ---------------------------------------------------------------- actions
\* line 72: xr.open_dataset(url) for one variable; the data variable carries
\* the long name, the time dimension is called 'day'
OpenDataset(var) ==
  [name   |-> varnames[var],
   units  |-> IF var \in {"tmmn", "tmmx"} THEN remote[var].units ELSE new_units[var],
   values |-> IF var \in {"tmmn", "tmmx"} THEN remote[var].values ELSE <<>>,
   dim    |-> "day",
   time   |-> remote.time]

\* lines 73-75: rename air_temperature to the variable's code
Rename(xds, var) == IF xds.name = "air_temperature" THEN [xds EXCEPT !.name = var] ELSE xds

\* lines 66-76, one iteration of the loop over varnames
Fetch(i) ==
  /\ pc[i] = "fetch"
  /\ \E ok \in BOOLEAN :
       LET var  == VarOrder[var_idx[i]]
           last == var_idx[i] = Len(VarOrder)
           next == IF last THEN "merge" ELSE "fetch"
       IN  /\ pc' = [pc EXCEPT ![i] = Outcome(ok, next)]
           /\ err' = [err EXCEPT ![i] = IF ok THEN @ ELSE "RetrievalError"]
           /\ dlist' = [dlist EXCEPT ![i] =
                          IF ok THEN Append(@, Rename(OpenDataset(var), var)) ELSE @]
           /\ var_idx' = [var_idx EXCEPT ![i] = IF ~ok THEN @ ELSE IF last THEN 1 ELSE @ + 1]
           /\ trace' = [trace EXCEPT ![i] =
                          IF ~ok THEN Ended(i, "Fetch", FALSE)
                          ELSE IF last THEN Ended(i, "Fetch", TRUE) ELSE @]
  /\ UNCHANGED <<merge_ds, tmin, tmax, model_idx, windowVars, fileVars, envVars>>

\* the data variable names of a list of datasets are pairwise different
NamesDistinct(dl) == \A a, b \in DOMAIN dl : a # b => dl[a].name # dl[b].name

\* line 77 and line 79: xr.merge(dlist), then 'day' renamed to 'time'
MergeDatasets(dl) ==
  [data |-> [n \in {dl[a].name : a \in DOMAIN dl} |->
               LET a == CHOOSE b \in DOMAIN dl : dl[b].name = n
               IN  [units |-> dl[a].units, values |-> dl[a].values]],
   dim  |-> "time",
   dims |-> <<"lon", "lat", "time">>,
   time |-> dl[1].time]

\* lines 77-79
Merge(i) ==
  /\ pc[i] = "merge"
  /\ \E aligned \in BOOLEAN :
       LET ok == aligned /\ NamesDistinct(dlist[i])
       IN  /\ pc' = [pc EXCEPT ![i] = Outcome(ok, "normalize")]
           /\ err' = [err EXCEPT ![i] = IF ok THEN @ ELSE "MergeError"]
           /\ merge_ds' = [merge_ds EXCEPT ![i] = IF ok THEN MergeDatasets(dlist[i]) ELSE @]
           /\ trace' = [trace EXCEPT ![i] = Ended(i, "Merge", ok)]
  /\ UNCHANGED <<dlist, tmin, tmax, model_idx, var_idx, windowVars, fileVars, envVars>>

\* lines 80-87, one iteration of the loop over ('tmmn', 'tmmx'); line 89
\* after the last one
NormalizeVar(i) ==
  /\ pc[i] = "normalize"
  /\ LET var  == ConvertVars[var_idx[i]]
         last == var_idx[i] = Len(ConvertVars)
         ok   == Convertible(merge_ds[i].data[var].units, new_units[var])
         next == IF last THEN "enforce" ELSE "normalize"
     IN  /\ pc' = [pc EXCEPT ![i] = Outcome(ok, next)]
         /\ err' = [err EXCEPT ![i] = IF ok THEN @ ELSE "UnitConversionError"]
         /\ merge_ds' = [merge_ds EXCEPT ![i] =
                           IF ~ok THEN @
                           ELSE [@ EXCEPT !.data[var] = Normalize(var, @),
                                          !.dims = IF last THEN <<"time", "lat", "lon">> ELSE @]]
         /\ var_idx' = [var_idx EXCEPT ![i] = IF ~ok THEN @ ELSE IF last THEN 1 ELSE @ + 1]
         /\ trace' = [trace EXCEPT ![i] =
                        IF ~ok THEN Ended(i, "Normalize", FALSE)
                        ELSE IF last THEN Ended(i, "Normalize", TRUE) ELSE @]
  /\ UNCHANGED <<dlist, tmin, tmax, model_idx, windowVars, fileVars, envVars>>

\* lines 90-95
EnforceConsistency(i) ==
  /\ pc[i] = "enforce"
  /\ LET tmin_ == merge_ds[i].data["tmmn"].values
         tmax_ == merge_ds[i].data["tmmx"].values
         swap_values == SwapValues(tmin_, tmax_)
     IN  /\ tmin' = [tmin EXCEPT ![i] = tmin_]
         /\ tmax' = [tmax EXCEPT ![i] = tmax_]
         /\ merge_ds' = [merge_ds EXCEPT
                           ![i].data["tmmn"].values = AssignWhere(@, swap_values, tmax_),
                           ![i].data["tmmx"].values = AssignWhere(@, swap_values, tmin_)]
  /\ pc' = [pc EXCEPT ![i] = Outcome(TRUE, "window")]
  /\ trace' = [trace EXCEPT ![i] = Ended(i, "Enforce", TRUE)]
  /\ UNCHANGED <<err, dlist, model_idx, var_idx, windowVars, fileVars, envVars>>

\* lines 96-114
Window(i) ==
  /\ pc[i] = "window"
  /\ LET end_date   == LastTime(merge_ds[i].time)
         start_date == StartDate(config_dict[i].MONITOR.End_Date)
         start_fmt  == Strftime(start_date)
         end_fmt    == Strftime(end_date)
         save_fmt   == Strftime(SaveStateDate(end_date))
     IN  /\ start_date_format' = [start_date_format EXCEPT ![i] = start_fmt]
         /\ end_date_format' = [end_date_format EXCEPT ![i] = end_fmt]
         /\ vic_save_state_format' = [vic_save_state_format EXCEPT ![i] = save_fmt]
         /\ kwargs' = [kwargs EXCEPT ![i] =
                         MakeKwargs(config_dict[i].MONITOR, start_fmt, end_fmt, save_fmt)]
  /\ pc' = [pc EXCEPT ![i] = Outcome(TRUE, "config")]
  /\ trace' = [trace EXCEPT ![i] = Ended(i, "Window", TRUE)]
  /\ UNCHANGED <<err, dataVars, model_idx, var_idx, handed, fileVars, envVars>>

\* lines 115-117: model_tools.replace_var_pythonic_config(old, new, **kwargs)
ReplaceConfig(i) ==
  /\ pc[i] = "config"
  /\ \E ok \in BOOLEAN :
       /\ pc' = [pc EXCEPT ![i] = Outcome(ok, "stage")]
       /\ err' = [err EXCEPT ![i] = IF ok THEN @ ELSE "ConfigError"]
       /\ trace' = [trace EXCEPT ![i] = Ended(i, "Config", ok)]
  /\ handed' = [handed EXCEPT ![i] = kwargs[i]]
  /\ UNCHANGED <<dataVars, model_idx, var_idx, start_date_format, end_date_format,
                 vic_save_state_format, kwargs, fileVars, envVars>>

\* lines 119-125: merge_ds.to_netcdf(temporary); a failed write leaves
\* nothing or a truncated file
ToNetcdf(i) ==
  /\ pc[i] = "stage"
  /\ LET model == modelnames[model_idx[i]]
         out   == OutFile(config_dict[i].MED_FCST.Met_Loc, model)
         tmp   == Temporary(config_dict[i].ECFLOW.TempDir, model)
     IN  /\ outfile' = [outfile EXCEPT ![i] = out]
         /\ temporary' = [temporary EXCEPT ![i] = tmp]
         /\ \E res \in {"ok", "truncated", "nothing"} :
              /\ fs' = IF res = "nothing" THEN fs
                       ELSE [fs EXCEPT ![tmp] =
                               [kind   |-> IF res = "ok" THEN "dataset" ELSE "partial",
                                writer |-> i, model |-> model]]
              /\ pc' = [pc EXCEPT ![i] = Outcome(res = "ok", "regrid")]
              /\ err' = [err EXCEPT ![i] = IF res = "ok" THEN @ ELSE "IOError"]
              /\ trace' = [trace EXCEPT ![i] = Ended(i, "Stage", res = "ok")]
  /\ UNCHANGED <<dataVars, model_idx, var_idx, windowVars, envVars>>

\* line 126: cdo.remapcon(grid_file, input=temporary, output=outfile); the
\* engine writes straight to outfile, and a failing run leaves either no
\* output or the part it had written
Remapcon(i) ==
  /\ pc[i] = "regrid"
  /\ \E res \in {"ok", "truncated", "nothing"} :
       LET readable == fs[temporary[i]].kind = "dataset"
           ok       == readable /\ res = "ok"
       IN  /\ fs' = IF ~readable \/ res = "nothing" THEN fs
                    ELSE [fs EXCEPT ![outfile[i]] =
                            [kind   |-> IF res = "ok" THEN "regridded" ELSE "partial",
                             writer |-> i, model |-> modelnames[model_idx[i]]]]
           /\ pc' = [pc EXCEPT ![i] = Outcome(ok, "remove")]
           /\ err' = [err EXCEPT ![i] = IF ok THEN @ ELSE "CDOException"]
           /\ trace' = [trace EXCEPT ![i] = Ended(i, "Regrid", ok)]
  /\ UNCHANGED <<dataVars, model_idx, var_idx, windowVars, outfile, temporary, envVars>>

\* line 127: os.remove(temporary), then the next model of line 64
Remove(i) ==
  /\ pc[i] = "remove"
  /\ LET ok   == fs[temporary[i]].kind # "none"
         last == model_idx[i] = Len(modelnames)
     IN  /\ fs' = IF ok THEN [fs EXCEPT ![temporary[i]] = NoFile] ELSE fs
         /\ pc' = [pc EXCEPT ![i] = Outcome(ok, IF last THEN "done" ELSE "fetch")]
         /\ err' = [err EXCEPT ![i] = IF ok THEN @ ELSE "FileNotFoundError"]
         /\ trace' = [trace EXCEPT ![i] = Ended(i, "Remove", ok)]
         /\ model_idx' = [model_idx EXCEPT ![i] = IF ok /\ ~last THEN @ + 1 ELSE @]
         /\ dlist' = [dlist EXCEPT ![i] = IF ok /\ ~last THEN <<>> ELSE @]
  /\ UNCHANGED <<merge_ds, tmin, tmax, var_idx, windowVars, outfile, temporary, envVars>>

Next ==
  \/ \E i \in Invocations : Fetch(i)
  \/ \E i \in Invocations : Merge(i)
  \/ \E i \in Invocations : NormalizeVar(i)
  \/ \E i \in Invocations : EnforceConsistency(i)
  \/ \E i \in Invocations : Window(i)
  \/ \E i \in Invocations : ReplaceConfig(i)
  \/ \E i \in Invocations : ToNetcdf(i)
  \/ \E i \in Invocations : Remapcon(i)
  \/ \E i \in Invocations : Remove(i)

\* ------------------------------------------------------------------ inputs
\* grid values on the server, in hundredths: -32768 (the int16 minimum), the
\* fill value -32767, and 283.15 (10 degC when the unit is K)
GridValues == {-3276800, -3276700, 28315}

\* grid values at line 90, in hundredths: -40000, -32768, the fill value,
\* -5, 5 and 10 degC
EnforceValues == {-4000000, -3276800, -3276700, -500, 500, 1000}

\* the units attribute the server may report for tmmn and tmmx
UnitInputs == {"K", "degC", "degF", "mm"}

SeriesInputs == [units : UnitInputs, values : [Cells -> GridValues]]

Date(y, m, d) == [year |-> y, month |-> m, day |-> d, hour |-> 0]

\* the days the date inputs start from: year end, leap and common February,
\* the century year 2100, and the two days of the documented example
Anchors == {Date(2023, 12, 30), Date(2024, 1, 10), Date(2024, 2, 27),
            Date(2024, 4, 9), Date(2025, 2, 27), Date(2100, 2, 27)}

DateInputs == {AddDays(a, k) : a \in Anchors, k \in 0..MaxDayOffset}

\* the time of day of the forecast's time axis
HourInputs == {0, 12}

\* a two-day time axis that ends at day d, hour h
TimeAxis(d, h) == <<[AddDays(d, -1) EXCEPT !.hour = h], [d EXCEPT !.hour = h]>>

DefaultSeries == [units |-> "K", values |-> [c \in Cells |-> 28315]]
DefaultTime == TimeAxis(Date(2024, 4, 9), 0)
DefaultEnd == Date(2024, 1, 10)

TempDirs == {"/tmp/a", "/tmp/b"}

\* the configuration of an invocation (lines 35-46, 97, 106-108, 123)
Config(tempdir, end) ==
  [MED_FCST |-> [Met_Loc |-> "/met"],
   ECFLOW   |-> [TempDir |-> tempdir, old_Config |-> "old.cfg", new_Config |-> "new.cfg"],
   DOMAIN_  |-> [GridFile |-> "grid.nc"],
   MONITOR  |-> [Start_Date     |-> Strftime(Date(2023, 12, 1)),
                 End_Date       |-> Strftime(end),
                 vic_save_state |-> Strftime(AddDays(end, 1))]]

Models == {modelnames[k] : k \in DOMAIN modelnames}

AllPaths == {Temporary(d, m) : d \in TempDirs, m \in Models}
              \cup {OutFile("/met", m) : m \in Models}

\* the state of main() at line 64, before the first model
InitLocals(procs) ==
  /\ fs = [p \in AllPaths |-> NoFile]
  /\ pc = [i \in procs |-> "fetch"]
  /\ err = [i \in procs |-> ""]
  /\ model_idx = [i \in procs |-> 1]
  /\ var_idx = [i \in procs |-> 1]
  /\ dlist = [i \in procs |-> <<>>]
  /\ merge_ds = [i \in procs |-> NoDataset]
  /\ tmin = [i \in procs |-> <<>>]
  /\ tmax = [i \in procs |-> <<>>]
  /\ start_date_format = [i \in procs |-> <<>>]
  /\ end_date_format = [i \in procs |-> <<>>]
  /\ vic_save_state_format = [i \in procs |-> <<>>]
  /\ kwargs = [i \in procs |-> <<>>]
  /\ handed = [i \in procs |-> <<>>]
  /\ outfile = [i \in procs |-> NoPath]
  /\ temporary = [i \in procs |-> NoPath]
  /\ trace = [i \in procs |-> <<>>]

\* one invocation, any tmmn/tmmx grids and units on the server
Init ==
  /\ \E sn \in SeriesInputs, sx \in SeriesInputs :
       remote = [tmmn |-> sn, tmmx |-> sx, time |-> DefaultTime]
  /\ config_dict = [i \in {1} |-> Config("/tmp/a", DefaultEnd)]
  /\ InitLocals({1})

Spec == Init /\ [][Next]_vars

\* one invocation, any prior end date and any last forecast day
InitWindow ==
  /\ \E d \in DateInputs, h \in HourInputs :
       remote = [tmmn |-> DefaultSeries, tmmx |-> DefaultSeries, time |-> TimeAxis(d, h)]
  /\ \E e \in DateInputs : config_dict = [i \in {1} |-> Config("/tmp/a", e)]
  /\ InitLocals({1})

SpecWindow == InitWindow /\ [][Next]_vars

\* several invocations at once, each with its own configuration file
InitConc ==
  /\ remote = [tmmn |-> DefaultSeries, tmmx |-> DefaultSeries, time |-> DefaultTime]
  /\ \E td \in [1..NumInvocations -> TempDirs] :
       config_dict = [i \in 1..NumInvocations |-> Config(td[i], DefaultEnd)]
  /\ InitLocals(1..NumInvocations)

SpecConc == InitConc /\ [][Next]_vars

\* lines 90-95 on their own: main() at line 90 with any tmmn/tmmx grids
InitEnforce ==
  /\ remote = [tmmn |-> DefaultSeries, tmmx |-> DefaultSeries, time |-> DefaultTime]
  /\ config_dict = [i \in {1} |-> Config("/tmp/a", DefaultEnd)]
  /\ fs = [p \in AllPaths |-> NoFile]
  /\ pc = [i \in {1} |-> "enforce"]
  /\ err = [i \in {1} |-> ""]
  /\ model_idx = [i \in {1} |-> 1]
  /\ var_idx = [i \in {1} |-> 1]
  /\ dlist = [i \in {1} |-> [k \in DOMAIN VarOrder |-> Rename(OpenDataset(VarOrder[k]), VarOrder[k])]]
  /\ \E a \in [Cells -> EnforceValues], b \in [Cells -> EnforceValues] :
       merge_ds = [i \in {1} |->
                     [MergeDatasets(dlist[i]) EXCEPT
                        !.data["tmmn"] = [units |-> "degC", values |-> a],
                        !.data["tmmx"] = [units |-> "degC", values |-> b],
                        !.dims = <<"time", "lat", "lon">>]]
  /\ tmin = [i \in {1} |-> <<>>]
  /\ tmax = [i \in {1} |-> <<>>]
  /\ start_date_format = [i \in {1} |-> <<>>]
  /\ end_date_format = [i \in {1} |-> <<>>]
  /\ vic_save_state_format = [i \in {1} |-> <<>>]
  /\ kwargs = [i \in {1} |-> <<>>]
  /\ handed = [i \in {1} |-> <<>>]
  /\ outfile = [i \in {1} |-> NoPath]
  /\ temporary = [i \in {1} |-> NoPath]
  /\ trace = [i \in {1} |->
                [k \in 1..3 |-> [model |-> modelnames[1],
                                 stage |-> <<"Fetch", "Merge", "Normalize">>[k], ok |-> TRUE]]]

NextEnforce == \E i \in Invocations : EnforceConsistency(i)

SpecEnforce == InitEnforce /\ [][NextEnforce]_vars

\* ------------------------------------------------------------- properties
\* the stage of a pass of invocation i has ended, with the given outcome
StageEnded(i, stage, ok) ==
  \E k \in DOMAIN trace[i] :
    /\ trace[i][k].model = modelnames[model_idx[i]]
    /\ trace[i][k].stage = stage
    /\ trace[i][k].ok = ok

PassEnded(i) == pc[i] \in {"done", "failed"}

\* C1: for every pass that reaches the regrid step, the staging file exists
\* while the regrid engine runs and does not exist once the pass has ended,
\* whether remapcon returned or raised.
C1_StagingFileScoped ==
  \A i \in Invocations :
    /\ pc[i] = "regrid" => fs[temporary[i]].kind = "dataset"
    /\ (PassEnded(i) /\ StageEnded(i, "Stage", TRUE)) => fs[temporary[i]].kind = "none"

\* C2: <model>.nc is present in the output location only if every stage up
\* to and including the regrid call has succeeded for that model.
C2_OutputOnlyAfterSuccess ==
  \A i \in Invocations :
    fs[OutFile(config_dict[i].MED_FCST.Met_Loc, modelnames[model_idx[i]])].kind # "none"
      => /\ StageEnded(i, "Fetch", TRUE)
         /\ StageEnded(i, "Merge", TRUE)
         /\ StageEnded(i, "Normalize", TRUE)
         /\ StageEnded(i, "Enforce", TRUE)
         /\ StageEnded(i, "Window", TRUE)
         /\ StageEnded(i, "Regrid", TRUE)

\* C3: after lines 90-95, every cell whose maximum is not the fill value
\* (before or after the enforcement) has minimum <= maximum.
C3_MinLeMax ==
  \A i \in Invocations :
    StageEnded(i, "Enforce", TRUE) /\ pc[i] = "window" =>
      \A c \in Cells :
        LET mn == merge_ds[i].data["tmmn"].values[c]
            mx == merge_ds[i].data["tmmx"].values[c]
        IN  (mx # FillValue \/ tmax[i][c] # FillValue) => mn <= mx

\* the scenario of the documentation: min = 10, max = 5 becomes min = 5, max = 10
C3_Witness ==
  \E i \in Invocations :
    /\ pc[i] = "window"
    /\ \E c \in Cells :
         /\ tmin[i][c] = 1000 /\ tmax[i][c] = 500
         /\ merge_ds[i].data["tmmn"].values[c] = 500
         /\ merge_ds[i].data["tmmx"].values[c] = 1000

\* C4: lines 90-95 leave every cell whose maximum is the fill value as it
\* was, whether the minimum is above or below the fill value.
C4_FillCellsUntouched ==
  \A i \in Invocations :
    StageEnded(i, "Enforce", TRUE) /\ pc[i] = "window" =>
      \A c \in Cells :
        tmax[i][c] = FillValue =>
          /\ merge_ds[i].data["tmmn"].values[c] = tmin[i][c]
          /\ merge_ds[i].data["tmmx"].values[c] = tmax[i][c]

\* one cell with a missing maximum and min = 10, one with a missing maximum
\* and a minimum below the fill value
C4_Witness ==
  \E i \in Invocations :
    /\ pc[i] = "window"
    /\ \E c, d \in Cells :
         /\ tmax[i][c] = FillValue /\ tmin[i][c] = 1000
         /\ merge_ds[i].data["tmmn"].values[c] = 1000
         /\ tmax[i][d] = FillValue /\ tmin[i][d] = -4000000
         /\ merge_ds[i].data["tmmn"].values[d] = -4000000

\* lines 80-87 have run for both variables and lines 90-95 have not
Normalized(i) == pc[i] = "enforce" /\ StageEnded(i, "Normalize", TRUE)

\* C5: for tmmn and tmmx and every unit that converts to degC, a cell that
\* is -32767 on the server is -32767 after lines 80-87.
C5_SentinelStable ==
  \A i \in Invocations :
    Normalized(i) =>
      \A var \in {"tmmn", "tmmx"} : \A c \in Cells :
        remote[var].values[c] = FillValue => merge_ds[i].data[var].values[c] = FillValue

\* val is orig, given in units_in, expressed in degC (to the nearest hundredth)
IsDegCOf(units_in, orig, val) ==
  CASE units_in = "K"    -> val + 27315 = orig
    [] units_in = "degC" -> val = orig
    [] units_in = "degF" -> /\ 2 * (9 * val - 5 * (orig - 3200)) <= 9
                            /\ 2 * (5 * (orig - 3200) - 9 * val) < 9

NextDay(d) ==
  IF d.day < DaysInMonth(d.year, d.month)
    THEN [year |-> d.year, month |-> d.month, day |-> d.day + 1]
    ELSE IF d.month < 12
      THEN [year |-> d.year, month |-> d.month + 1, day |-> 1]
      ELSE [year |-> d.year + 1, month |-> 1, day |-> 1]

\* the number two characters of a string spell
Num2(s, k) == 10 * DigitVal(s[k]) + DigitVal(s[k + 1])

\* s is day d written as YYYY-MM-DD, and nothing more
Shows(s, d) ==
  /\ Len(s) = 10
  /\ s[5] = "-" /\ s[8] = "-"
  /\ 100 * Num2(s, 1) + Num2(s, 3) = d.year
  /\ Num2(s, 6) = d.month
  /\ Num2(s, 9) = d.day

\* the day a YYYY-MM-DD string names
DayOf(s) == [year |-> 100 * Num2(s, 1) + Num2(s, 3), month |-> Num2(s, 6), day |-> Num2(s, 9)]

\* C7: with E the prior run's end date and L the day of the last timestamp
\* of the merged series, the window is start = E + 1 day, end = L,
\* restart = L + 1 day, each written as a calendar date.
C7_WindowArithmetic ==
  \A i \in Invocations :
    StageEnded(i, "Window", TRUE) =>
      LET E == DayOf(config_dict[i].MONITOR.End_Date)
          L == remote.time[Len(remote.time)]
      IN  /\ Shows(start_date_format[i], NextDay(E))
          /\ Shows(end_date_format[i], L)
          /\ Shows(vic_save_state_format[i], NextDay(L))

\* the documented example: 2024-01-10 and 2024-04-09
C7_Witness ==
  \E i \in Invocations :
    /\ StageEnded(i, "Window", TRUE)
    /\ config_dict[i].MONITOR.End_Date = <<"2", "0", "2", "4", "-", "0", "1", "-", "1", "0">>
    /\ remote.time[Len(remote.time)] = [year |-> 2024, month |-> 4, day |-> 9, hour |-> 12]
    /\ start_date_format[i] = <<"2", "0", "2", "4", "-", "0", "1", "-", "1", "1">>
    /\ end_date_format[i] = <<"2", "0", "2", "4", "-", "0", "4", "-", "0", "9">>
    /\ vic_save_state_format[i] = <<"2", "0", "2", "4", "-", "0", "4", "-", "1", "0">>

\* the staging file of invocation i has been written and not yet removed by it
Staging(i) == pc[i] \in {"regrid", "remove"}

\* C8: two passes in progress at the same time use different staging
\* paths, and the file a pass is about to read or delete is the one it wrote.
C8_StagingPathsDistinct ==
  /\ \A i, j \in Invocations :
       (i # j /\ Staging(i) /\ Staging(j)) => temporary[i] # temporary[j]
  /\ \A i \in Invocations :
       Staging(i) => fs[temporary[i]].writer = i

\* replace_var_pythonic_config has been called
HandedOver(i) == StageEnded(i, "Config", TRUE) \/ StageEnded(i, "Config", FALSE)

WindowKeys == {"MED_START_DATE", "MED_END_DATE", "MED_VIC_SAVE_STATE"}
SeasKeys == {"SEAS_START_DATE", "SEAS_END_DATE", "SEAS_VIC_SAVE_STATE"}
MonitorKeys == {"START_DATE", "END_DATE", "VIC_SAVE_STATE"}

\* C9 as stated: the mapping handed to replace_var_pythonic_config has the
\* window triple and the SEAS_* keys, each -9999, and no other key.
C9_OnlyWindowAndSeasKeys ==
  \A i \in Invocations :
    HandedOver(i) =>
      /\ DOMAIN handed[i] = WindowKeys \cup SeasKeys
      /\ \A k \in SeasKeys : handed[i][k] = -9999

\* C9 amended: the mapping has the window triple, the SEAS_* keys, each
\* -9999, and START_DATE, END_DATE and VIC_SAVE_STATE as the configuration
\* gives them, and no other key.
C9_WindowSeasAndMonitorKeys ==
  \A i \in Invocations :
    HandedOver(i) =>
      /\ DOMAIN handed[i] = WindowKeys \cup SeasKeys \cup MonitorKeys
      /\ \A k \in SeasKeys : handed[i][k] = -9999
      /\ handed[i]["MED_START_DATE"] = start_date_format[i]
      /\ handed[i]["MED_END_DATE"] = end_date_format[i]
      /\ handed[i]["MED_VIC_SAVE_STATE"] = vic_save_state_format[i]
      /\ handed[i]["START_DATE"] = config_dict[i].MONITOR.Start_Date
      /\ handed[i]["END_DATE"] = config_dict[i].MONITOR.End_Date
      /\ handed[i]["VIC_SAVE_STATE"] = config_dict[i].MONITOR.vic_save_state

C9_Witness ==
  \E i \in Invocations :
    /\ StageEnded(i, "Config", TRUE)
    /\ handed[i]["MED_START_DATE"] = <<"2", "0", "2", "4", "-", "0", "1", "-", "1", "1">>
    /\ handed[i]["END_DATE"] = <<"2", "0", "2", "4", "-", "0", "1", "-", "1", "0">>
    /\ handed[i]["SEAS_END_DATE"] = -9999

\* the stages of one pass, in the order of the statements of lines 64-127
StageOrder == <<"Fetch", "Merge", "Normalize", "Enforce", "Window", "Config",
                "Stage", "Regrid", "Remove">>

\* the stages of trace[i] that belong to model m
PassOf(i, m) == SelectSeq(trace[i], LAMBDA e : e.model = m)

\* C10: the stages of a pass end in the order Fetch, Merge, Normalize,
\* Enforce, Window (with the call of the configuration rewriter), Regrid
\* (staging, remapcon writing <model>.nc, removal), each at most once, none
\* after a failed one; a failed stage ends main().
C10_LinearPass ==
  \A i \in Invocations :
    /\ \A m \in Models :
         LET p == PassOf(i, m)
         IN  /\ Len(p) <= Len(StageOrder)
             /\ \A j \in DOMAIN p :
                  /\ p[j].stage = StageOrder[j]
                  /\ j < Len(p) => p[j].ok
    /\ pc[i] = "failed" <=> (trace[i] # <<>> /\ ~trace[i][Len(trace[i])].ok)
    /\ pc[i] = "done" => PassOf(i, modelnames[Len(modelnames)]) # <<>>
                         /\ Len(PassOf(i, modelnames[Len(modelnames)])) = Len(StageOrder)
    /\ fs[OutFile(config_dict[i].MED_FCST.Met_Loc, modelnames[model_idx[i]])].kind = "regridded"
         => StageEnded(i, "Regrid", TRUE)

\* a pass that ran every stage to the end
C10_Witness ==
  \E i \in Invocations :
    /\ pc[i] = "done"
    /\ Len(trace[i]) = 9
    /\ trace[i][1].stage = "Fetch" /\ trace[i][9].stage = "Remove"
    /\ fs[outfile[i]].kind = "regridded"

====
